---------------------------- MODULE Spec2Model ----------------------------
(***************************************************************************)
(* Model of dineniso5167/core.py: the orifice flow-rate solver             *)
(* compute_volume_flow_rate and the functions it calls (compute_beta,      *)
(* compute_density, compute_mu_air, compute_expansion_number, _vfr,        *)
(* compute_reynolds_number, compute_flow_coefficient).                     *)
(*                                                                         *)
(* Python floats are modelled as decimal floating-point numbers with four  *)
(* significant digits, m * 10^e with 1000 <= |m| <= 9999 (or m = 0), and   *)
(* the value nan.  Every arithmetic operation rounds its exact result to   *)
(* the nearest such number, as IEEE arithmetic rounds to the nearest       *)
(* double.  Inputs are scalars (the float branch of the code).             *)
(***************************************************************************)
EXTENDS Integers, Sequences, FiniteSets, TLC

(***************************************************************************)
(* Decimal floating point.                                                 *)
(***************************************************************************)
NaN == [nan |-> TRUE, m |-> 0, e |-> 0]

Zero == [nan |-> FALSE, m |-> 0, e |-> 0]

Pow10(k) ==
    CASE k = 0 -> 1
      [] k = 1 -> 10
      [] k = 2 -> 100
      [] k = 3 -> 1000
      [] k = 4 -> 10000
      [] k = 5 -> 100000
      [] k = 6 -> 1000000
      [] k = 7 -> 10000000
      [] k = 8 -> 100000000
      [] k = 9 -> 1000000000

\* number of decimal digits of n >= 1
Digits(n) ==
    IF n < 10000
    THEN IF n < 100 THEN (IF n < 10 THEN 1 ELSE 2)
         ELSE (IF n < 1000 THEN 3 ELSE 4)
    ELSE IF n < 1000000 THEN (IF n < 100000 THEN 5 ELSE 6)
    ELSE IF n < 100000000 THEN (IF n < 10000000 THEN 7 ELSE 8)
    ELSE IF n < 1000000000 THEN 9 ELSE 10

Abs(n) == IF n < 0 THEN -n ELSE n

Sgn(n) == IF n < 0 THEN -1 ELSE IF n > 0 THEN 1 ELSE 0

\* the float nearest to sign * mag * 10^e  (mag >= 0)
Round(sign, mag, e) ==
    IF mag = 0 THEN Zero
    ELSE LET dg == Digits(mag) IN
         IF dg > 4
         THEN LET k == dg - 4
                  q == (mag + (Pow10(k) \div 2)) \div Pow10(k)
              IN  IF q = 10000
                  THEN [nan |-> FALSE, m |-> sign * 1000, e |-> e + k + 1]
                  ELSE [nan |-> FALSE, m |-> sign * q, e |-> e + k]
         ELSE [nan |-> FALSE, m |-> sign * mag * Pow10(4 - dg), e |-> e - (4 - dg)]

\* the literal m * 10^e
F(m, e) == Round(Sgn(m), Abs(m), e)

FNeg(a) == IF a.nan THEN NaN ELSE [a EXCEPT !.m = -a.m]

FAbs(a) == IF a.nan THEN NaN ELSE [a EXCEPT !.m = Abs(a.m)]

FAdd(a, b) ==
    IF a.nan \/ b.nan THEN NaN
    ELSE IF a.m = 0 THEN b
    ELSE IF b.m = 0 THEN a
    ELSE LET hi == IF a.e >= b.e THEN a ELSE b
             lo == IF a.e >= b.e THEN b ELSE a
             df == hi.e - lo.e
         IN  IF df > 5 THEN hi
             ELSE LET s == hi.m * Pow10(df) + lo.m
                  IN  Round(Sgn(s), Abs(s), lo.e)

FSub(a, b) == FAdd(a, FNeg(b))

FMul(a, b) ==
    IF a.nan \/ b.nan THEN NaN
    ELSE Round(Sgn(a.m) * Sgn(b.m), Abs(a.m) * Abs(b.m), a.e + b.e)

\* numpy semantics for a zero divisor of a float64: nan (0/0) or +-inf; the
\* inputs modelled below never divide by zero, and the model has no inf
FDiv(a, b) ==
    IF a.nan \/ b.nan \/ b.m = 0 THEN NaN
    ELSE Round(Sgn(a.m) * Sgn(b.m), (Abs(a.m) * 10000) \div Abs(b.m), a.e - b.e - 4)

\* comparisons: every comparison with nan is False
FLt(a, b) == ~a.nan /\ ~b.nan /\ FSub(a, b).m < 0

FLe(a, b) == ~a.nan /\ ~b.nan /\ FSub(a, b).m <= 0

FGt(a, b) == FLt(b, a)

FGe(a, b) == FLe(b, a)

\* np.sign
FSign(a) == IF a.nan THEN NaN ELSE F(Sgn(a.m), 0)

RECURSIVE ISqrtFrom(_, _)
\* the integer square root of n >= 1 by Newton's iteration from s >= sqrt(n)
ISqrtFrom(n, s) ==
    LET t == (s + n \div s) \div 2
    IN  IF t >= s THEN s ELSE ISqrtFrom(n, t)

\* np.sqrt: nan for a negative argument
FSqrt(a) ==
    IF a.nan \/ a.m < 0 THEN NaN
    ELSE IF a.m = 0 THEN Zero
    ELSE LET k == IF a.e % 2 = 0 THEN 4 ELSE 5
             n == a.m * Pow10(k)
             s == ISqrtFrom(n, IF k = 4 THEN 10000 ELSE 31623)
             r == IF n - s * s > s THEN s + 1 ELSE s
         IN  Round(1, r, (a.e - k) \div 2)

RECURSIVE FPowInt(_, _)
\* x ** k for an integer k >= 0, by repeated squaring
FPowInt(x, k) ==
    IF k = 0 THEN F(1, 0)
    ELSE IF k = 1 THEN x
    ELSE LET h == FPowInt(x, k \div 2)
         IN  IF k % 2 = 0 THEN FMul(h, h) ELSE FMul(FMul(h, h), x)

\* float literals used below
One == F(1, 0)

Two == F(2, 0)

Four == F(4, 0)

Hundred == F(100, 0)

Thousand == F(1000, 0)

RECURSIVE Gcd(_, _)
Gcd(a, b) == IF b = 0 THEN a ELSE Gcd(b, a % b)

RECURSIVE RootMantissa(_, _, _, _, _)
\* largest n in lo..hi with (n * 10^k) ** q <= y
RootMantissa(y, q, k, lo, hi) ==
    IF lo >= hi THEN lo
    ELSE LET mid == (lo + hi + 1) \div 2
         IN  IF FLe(FPowInt(F(mid, k), q), y)
             THEN RootMantissa(y, q, k, mid, hi)
             ELSE RootMantissa(y, q, k, lo, mid - 1)

\* the q-th root of y > 0, rounded down
FRoot(y, q) ==
    LET k1 == ((y.e + 3) \div q) - 3
        k  == IF FLe(FPowInt(F(1000, k1 + 1), q), y) THEN k1 + 1 ELSE k1
    IN  F(RootMantissa(y, q, k, 1000, 9999), k)

\* x ** (p / q) for integers p >= 0, q >= 1.  A negative Python float to a
\* fractional power is a complex number; no input modelled below takes that
\* branch, and the model gives nan there.
FPowRat(x, p, q) ==
    IF x.nan THEN NaN
    ELSE IF q = 1 THEN FPowInt(x, p)
    ELSE IF x.m < 0 THEN NaN
    ELSE IF x.m = 0 THEN Zero
    ELSE FRoot(FPowInt(x, p), q)

\* x ** (1 / kappa): 1 / kappa as the fraction p / q in lowest terms
FPowInv(x, kappa) ==
    LET num == IF kappa.e < 0 THEN Pow10(-kappa.e) ELSE 1
        den == IF kappa.e < 0 THEN kappa.m ELSE kappa.m * Pow10(kappa.e)
        g   == Gcd(num, den)
    IN  FPowRat(x, num \div g, den \div g)

(***************************************************************************)
(* Module constants and the functions of core.py.                          *)
(***************************************************************************)
Rs == F(287058, -3)

Rd == F(461523, -3)

T0_Kelvin == F(27315, -2)

VAPOR_PRESSURE == F(2300, 0)

pi == F(3141593, -6)

compute_mu_air(T) ==
    FDiv(FMul(F(1458, -9), FPowRat(T, 3, 2)), FAdd(T, F(1104, -1)))

compute_density(p, T, phi, pv) ==
    LET Rf == FDiv(Rs, FSub(One,
                  FMul(FDiv(FMul(phi, pv), p), FSub(One, FDiv(Rs, Rd)))))
    IN  FDiv(p, FMul(Rf, T))

Cel2Kel(T) == FAdd(T, T0_Kelvin)

compute_reynolds_number(u, d, nu) == FDiv(FMul(u, d), nu)

\* mutation of line 112: D < d in place of D <= d
compute_beta_lt(d, D, unit, mounting_type) ==
    IF FLt(D, d)
    THEN [exc |-> "ValueError", beta |-> NaN, warning |-> "none"]
    ELSE LET beta == FDiv(d, D)
             d_mm == IF unit = "m" THEN FMul(d, Thousand) ELSE d
             D_mm == IF unit = "m" THEN FMul(D, Thousand) ELSE D
         IN  IF mounting_type # "flange"
             THEN [exc |-> "NotImplementedError", beta |-> NaN, warning |-> "none"]
             ELSE IF FLe(d_mm, F(125, -1))
             THEN [exc |-> "none", beta |-> beta, warning |-> "d_orifice"]
             ELSE IF FLt(D_mm, F(50, 0)) \/ FGt(D_mm, Thousand)
             THEN [exc |-> "none", beta |-> beta, warning |-> "d_pipe"]
             ELSE IF FGe(beta, F(10, -2))
             THEN IF FGe(F(75, -2), beta)
                  THEN [exc |-> "none", beta |-> beta, warning |-> "none"]
                  ELSE [exc |-> "none", beta |-> beta, warning |-> "beta"]
             ELSE [exc |-> "none", beta |-> beta, warning |-> "beta"]

\* compute_beta: what the call raises ("none": it returns), the value it
\* returns and the warning it emits ("none": no warning)
compute_beta(d, D, unit, mounting_type) ==
    IF FLe(D, d)
    THEN [exc |-> "ValueError", beta |-> NaN, warning |-> "none"]
    ELSE LET beta == FDiv(d, D)
             d_mm == IF unit = "m" THEN FMul(d, Thousand) ELSE d
             D_mm == IF unit = "m" THEN FMul(D, Thousand) ELSE D
         IN  IF mounting_type # "flange"
             THEN [exc |-> "NotImplementedError", beta |-> NaN, warning |-> "none"]
             ELSE IF FLe(d_mm, F(125, -1))
             THEN [exc |-> "none", beta |-> beta, warning |-> "d_orifice"]
             ELSE IF FLt(D_mm, F(50, 0)) \/ FGt(D_mm, Thousand)
             THEN [exc |-> "none", beta |-> beta, warning |-> "d_pipe"]
             ELSE IF FGe(beta, F(10, -2))
             THEN IF FGe(F(75, -2), beta)
                  THEN [exc |-> "none", beta |-> beta, warning |-> "none"]
                  ELSE [exc |-> "none", beta |-> beta, warning |-> "beta"]
             ELSE [exc |-> "none", beta |-> beta, warning |-> "beta"]

\* mutation of line 183: the guard uncertainty > 0 dropped
uncertainty_unguarded(beta, D, Re) ==
    LET u1 == IF FLe(F(1, -1), beta) /\ FLt(beta, F(2, -1))
              THEN FDiv(FSub(F(7, -1), beta), Hundred)
              ELSE IF FLe(F(2, -1), beta) /\ FLe(beta, F(6, -1))
              THEN FDiv(F(5, -1), Hundred)
              ELSE IF FLt(F(6, -1), beta) /\ FLe(beta, F(77, -2))
              THEN FDiv(FSub(FMul(F(1667, -3), beta), F(5, -1)), Hundred)
              ELSE Zero
        u2 == IF FGt(beta, F(5, -1)) /\ FLt(Re, F(10000, 0))
              THEN FAdd(u1, FDiv(F(5, -1), Hundred))
              ELSE u1
    IN  IF FLt(D, F(7112, -4))
        THEN FAdd(u2, FDiv(FMul(FMul(F(9, -1), FSub(F(75, -2), beta)),
                                FSub(F(28, -1), FDiv(D, F(254, -1)))), Hundred))
        ELSE u2

\* the uncertainty that compute_flow_coefficient returns with C
uncertainty(beta, D, Re) ==
    LET u1 == IF FLe(F(1, -1), beta) /\ FLt(beta, F(2, -1))
              THEN FDiv(FSub(F(7, -1), beta), Hundred)
              ELSE IF FLe(F(2, -1), beta) /\ FLe(beta, F(6, -1))
              THEN FDiv(F(5, -1), Hundred)
              ELSE IF FLt(F(6, -1), beta) /\ FLe(beta, F(77, -2))
              THEN FDiv(FSub(FMul(F(1667, -3), beta), F(5, -1)), Hundred)
              ELSE Zero
        u2 == IF FGt(u1, Zero)
              THEN IF FGt(beta, F(5, -1)) /\ FLt(Re, F(10000, 0))
                   THEN FAdd(u1, FDiv(F(5, -1), Hundred))
                   ELSE u1
              ELSE u1
    IN  IF FLt(D, F(7112, -4))
        THEN FAdd(u2, FDiv(FMul(FMul(F(9, -1), FSub(F(75, -2), beta)),
                                FSub(F(28, -1), FDiv(D, F(254, -1)))), Hundred))
        ELSE u2

_vfr(C_0, beta, d, eps, dp, rho) ==
    LET k == FMul(FDiv(FMul(FMul(FDiv(C_0, FSqrt(FSub(One, FPowInt(beta, 4)))),
                                 eps), pi), Four), FPowInt(d, 2))
    IN  IF FLt(dp, Zero)
        THEN FMul(FMul(k, FSqrt(FDiv(FMul(Two, FAbs(dp)), rho))), FSign(dp))
        ELSE FMul(k, FSqrt(FDiv(FMul(Two, dp), rho)))

\* compute_expansion_number: <<eps, rel_uncertainty>>
compute_expansion_number(beta, p1, p2, kappa) ==
    LET eps == FSub(One,
                 FMul(FAdd(FAdd(F(351, -3), FMul(F(256, -3), FPowInt(beta, 4))),
                           FMul(F(93, -2), FPowInt(beta, 8))),
                      FSub(One, FPowInv(FDiv(p2, p1), kappa))))
        dp  == FSub(p2, p1)
    IN  <<eps, FDiv(FDiv(FDiv(FMul(F(35, -1), dp), kappa), p1), Hundred)>>

\* dp_loss of compute_volume_flow_rate
dp_loss_of(beta, C, dp) ==
    LET root == FSqrt(FSub(One, FMul(FPowInt(beta, 4),
                                         FSub(One, FPowInt(C, 2)))))
        cb2  == FMul(C, FPowInt(beta, 2))
    IN  FMul(FDiv(FSub(root, cb2), FAdd(root, cb2)), dp)

(***************************************************************************)
(* compute_flow_coefficient.  The correlation for C (lines 162-172) is a   *)
(* transcendental expression in Re.  Its value is not computed: for a      *)
(* positive Re it is any member of CRange, and for a Re that is zero,      *)
(* negative or nan it is nan, as numpy evaluates (19000 * beta / Re) **    *)
(* 0.8 and the sum of the terms there.                                     *)
(***************************************************************************)
NumC == 3

CRange == { F(6060 + 2 ^ (i - 1), -4) : i \in 1..NumC }

\* the values C that compute_flow_coefficient may return
compute_flow_coefficient(beta, D, Re) ==
    IF FGt(Re, Zero) THEN CRange ELSE {NaN}

(***************************************************************************)
(* State.  The parameters and locals of compute_volume_flow_rate carry the *)
(* names they have in the code; a local that is not bound yet is Unbound.  *)
(***************************************************************************)
VARIABLES
    pc,                 \* "init", "loop" (line 287), "done" (line 300),
                        \* "returned", "raised"; "call" / "ret" for a direct
                        \* call of compute_beta or compute_flow_coefficient
    args,               \* the arguments of the call, as the caller passed them
    ret,                \* the value returned
    exc,                \* the exception raised, "none" if none
    warnings,           \* the warnings and messages emitted so far
    dp, d_orifice, d_pipe, length_unit, p1, T, phi, kappa, C_guess, residuum,
    beta, A_D, rho_air, nu_air, p2, eps, eps_uncertainty,
    j, vfr_value, Re, C, C_err, vfr_value_max, vfr_value_min, dp_loss,
    C_0,                \* history: the C_0 passed to _vfr on line 288
    qv_ref              \* history: qv returned by the call with dp = +x

params == <<dp, d_orifice, d_pipe, length_unit, p1, T, phi, kappa>>

setup  == <<beta, A_D, rho_air, nu_air, p2, eps, eps_uncertainty>>

loopv  == <<C_guess, residuum, j, vfr_value, Re, C, C_err, vfr_value_max,
            vfr_value_min, C_0>>

vars   == <<pc, args, ret, exc, warnings, params, setup, loopv, dp_loss, qv_ref>>

Unbound == [unbound |-> TRUE]

NoArgs == [fn |-> "none"]

\* line 285
eps_res == F(1, -4)

\* line 296: j > 999
MAX_J == 999

\* mutation of line 296: j > 1000
MaxIterationsReached_late(n) == n > MAX_J + 1

\* mutation of line 296: j >= 999
MaxIterationsReached_early(n) == n >= MAX_J

MaxIterationsReached(n) == n > MAX_J

(***************************************************************************)
(* Inputs.                                                                  *)
(***************************************************************************)
Geometries ==
    { <<F(50, 0), F(100, 0), "mm">>,      \* beta = 0.5
      <<F(8, -2), F(1, -1), "m">>,        \* beta = 0.8, given in metres
      <<F(100, 0), F(100, 0), "mm">>,     \* D = d
      <<F(120, 0), F(100, 0), "mm">> }    \* D < d

DpValues == { F(5000, 0), F(-5000, 0), Zero }

P1Values == { F(2, 5) }

TValues == { F(29315, -2), F(20, 0) }

PhiValues == { Zero }

KappaValues == { F(14, -1) }

CGuessValues == { F(62, -2), F(6061, -4) }

ResiduumValues == { F(1, -1), F(1, -4), Zero }

InitLocals ==
    /\ beta = Unbound /\ A_D = Unbound /\ rho_air = Unbound /\ nu_air = Unbound
    /\ p2 = Unbound /\ eps = Unbound /\ eps_uncertainty = Unbound
    /\ j = 0
    /\ vfr_value = Unbound /\ Re = Unbound /\ C = Unbound /\ C_err = Unbound
    /\ vfr_value_max = Unbound /\ vfr_value_min = Unbound /\ dp_loss = Unbound
    /\ C_0 = Unbound

InitParams ==
    /\ \E g \in Geometries : d_orifice = g[1] /\ d_pipe = g[2] /\ length_unit = g[3]
    /\ dp \in DpValues
    /\ p1 \in P1Values
    /\ T \in TValues
    /\ phi \in PhiValues
    /\ kappa \in KappaValues
    /\ C_guess \in CGuessValues
    /\ residuum \in ResiduumValues

Init ==
    /\ pc = "init"
    /\ args = NoArgs
    /\ ret = <<>>
    /\ exc = "none"
    /\ warnings = {}
    /\ InitParams
    /\ InitLocals
    /\ qv_ref = Unbound

(***************************************************************************)
(* compute_volume_flow_rate, lines 246-286: everything before the loop.    *)
(***************************************************************************)
Call ==
    /\ pc = "init"
    /\ LET b == compute_beta(d_orifice, d_pipe, length_unit, "flange") IN
       IF b.exc # "none"
       THEN /\ pc' = "raised"
            /\ exc' = b.exc
            /\ UNCHANGED <<warnings, params, setup, j>>
       ELSE LET d_o  == IF length_unit = "mm" THEN FDiv(d_orifice, Thousand)
                        ELSE d_orifice
                d_p  == IF length_unit = "mm" THEN FDiv(d_pipe, Thousand)
                        ELSE d_pipe
                TK   == IF FLt(T, Hundred) THEN Cel2Kel(T) ELSE T
                rho  == compute_density(p1, TK, phi, VAPOR_PRESSURE)
                mu   == compute_mu_air(TK)
                p2n  == FAdd(p1, dp)
                en   == compute_expansion_number(b.beta, p1, p2n, kappa)
            IN  /\ pc' = "loop"
                /\ exc' = exc
                /\ warnings' = IF b.warning = "none" THEN warnings
                               ELSE warnings \cup {b.warning}
                /\ beta' = b.beta
                /\ d_orifice' = d_o
                /\ d_pipe' = d_p
                /\ A_D' = FMul(FDiv(FPowInt(d_o, 2), Four), pi)
                /\ T' = TK
                /\ rho_air' = rho
                /\ nu_air' = FDiv(mu, rho)
                /\ p2' = p2n
                /\ eps' = en[1]
                /\ eps_uncertainty' = en[2]
                /\ j' = 0
                /\ UNCHANGED <<dp, length_unit, p1, phi, kappa>>
    /\ UNCHANGED <<args, ret, C_guess, residuum, vfr_value, Re, C, C_err,
                   vfr_value_max, vfr_value_min, C_0, dp_loss, qv_ref>>

\* mutation of line 291: eps in place of eps + eps_uncertainty
vfr_max_plain_eps(Cg, Cerr) ==
    _vfr(FAdd(Cg, Cerr), beta, d_orifice, eps, dp, rho_air)

\* line 291
vfr_max_of(Cg, Cerr) ==
    _vfr(FAdd(Cg, Cerr), beta, d_orifice, FAdd(eps, eps_uncertainty), dp, rho_air)

\* mutation of line 292: C_guess + C_err in place of C_guess - C_err
vfr_min_plus(Cg, Cerr) ==
    _vfr(FAdd(Cg, Cerr), beta, d_orifice, FSub(eps, eps_uncertainty), dp, rho_air)

\* line 292
vfr_min_of(Cg, Cerr) ==
    _vfr(FSub(Cg, Cerr), beta, d_orifice, FSub(eps, eps_uncertainty), dp, rho_air)

(***************************************************************************)
(* One pass of the while loop, lines 287-298: the test of line 287 holds,  *)
(* the body runs, and line 296 either breaks or goes back to line 287.     *)
(***************************************************************************)
Iterate ==
    /\ pc = "loop"
    /\ FGt(residuum, eps_res)
    /\ LET v    == _vfr(C_guess, beta, d_orifice, eps, dp, rho_air)
           ReN  == compute_reynolds_number(FDiv(v, A_D), d_pipe, nu_air)
           Cerr == uncertainty(beta, d_pipe, ReN)
           vmax == vfr_max_of(C_guess, Cerr)
           vmin == vfr_min_of(C_guess, Cerr)
       IN  \E Cn \in compute_flow_coefficient(beta, d_pipe, ReN) :
             /\ vfr_value' = v
             /\ Re' = ReN
             /\ C' = Cn
             /\ C_err' = Cerr
             /\ vfr_value_max' = vmax
             /\ vfr_value_min' = vmin
             /\ residuum' = FAbs(FSub(Cn, C_guess))
             /\ C_guess' = Cn
             /\ C_0' = C_guess
    /\ j' = j + 1
    /\ IF MaxIterationsReached(j + 1)
       THEN /\ warnings' = (IF FLt(dp, Zero) THEN warnings \cup {"negative dp"}
                            ELSE warnings) \cup {"maximum iterations"}
            /\ pc' = "done"
       ELSE /\ warnings' = IF FLt(dp, Zero) THEN warnings \cup {"negative dp"}
                           ELSE warnings
            /\ pc' = "loop"
    /\ UNCHANGED <<args, ret, exc, params, setup, dp_loss, qv_ref>>

\* line 287: the test fails and the loop is left
ExitLoop ==
    /\ pc = "loop"
    /\ ~FGt(residuum, eps_res)
    /\ pc' = "done"
    /\ UNCHANGED <<args, ret, exc, warnings, params, setup, loopv, dp_loss, qv_ref>>

\* mutation of line 314: the bounds in the other order
result_tuple_swapped(qv, qv_min, qv_max, loss) == <<qv, qv_max, qv_min, loss>>

\* line 314
result_tuple(qv, qv_min, qv_max, loss) == <<qv, qv_min, qv_max, loss>>

(***************************************************************************)
(* Lines 300-314: dp_loss and the return.  Reading C while it is not       *)
(* bound raises UnboundLocalError.                                         *)
(***************************************************************************)
Finish ==
    /\ pc = "done"
    /\ IF C = Unbound
       THEN /\ pc' = "raised"
            /\ exc' = "UnboundLocalError"
            /\ UNCHANGED <<ret, dp_loss>>
       ELSE /\ pc' = "returned"
            /\ dp_loss' = dp_loss_of(beta, C, dp)
            /\ ret' = result_tuple(vfr_value, vfr_value_min, vfr_value_max,
                                    dp_loss_of(beta, C, dp))
            /\ exc' = exc
    /\ UNCHANGED <<args, warnings, params, setup, loopv, qv_ref>>

Next == Call \/ Iterate \/ ExitLoop \/ Finish

Spec == Init /\ [][Next]_vars

(***************************************************************************)
(* The caller calls compute_volume_flow_rate with dp = +x and then again   *)
(* with dp = -x and otherwise the same arguments.                          *)
(***************************************************************************)
InitSign ==
    /\ pc = "init"
    /\ ret = <<>>
    /\ exc = "none"
    /\ warnings = {}
    /\ d_orifice = F(50, 0) /\ d_pipe = F(100, 0) /\ length_unit = "mm"
    /\ dp = F(5000, 0)
    /\ p1 \in P1Values
    /\ T = F(29315, -2)
    /\ phi \in PhiValues
    /\ kappa \in KappaValues
    /\ C_guess \in CGuessValues
    /\ residuum = F(1, -1)
    /\ args = [fn |-> "compute_volume_flow_rate", dp |-> dp,
               d_orifice |-> d_orifice, d_pipe |-> d_pipe,
               length_unit |-> length_unit, p1 |-> p1, T |-> T, phi |-> phi,
               kappa |-> kappa, C_guess |-> C_guess, residuum |-> residuum]
    /\ InitLocals
    /\ qv_ref = Unbound

CallNegated ==
    /\ pc = "returned"
    /\ qv_ref = Unbound
    /\ qv_ref' = ret[1]
    /\ pc' = "init"
    /\ ret' = <<>>
    /\ warnings' = {}
    /\ dp' = FNeg(args.dp)
    /\ d_orifice' = args.d_orifice /\ d_pipe' = args.d_pipe
    /\ length_unit' = args.length_unit
    /\ p1' = args.p1 /\ T' = args.T /\ phi' = args.phi /\ kappa' = args.kappa
    /\ C_guess' = args.C_guess /\ residuum' = args.residuum
    /\ beta' = Unbound /\ A_D' = Unbound /\ rho_air' = Unbound
    /\ nu_air' = Unbound /\ p2' = Unbound /\ eps' = Unbound
    /\ eps_uncertainty' = Unbound
    /\ j' = 0
    /\ vfr_value' = Unbound /\ Re' = Unbound /\ C' = Unbound /\ C_err' = Unbound
    /\ vfr_value_max' = Unbound /\ vfr_value_min' = Unbound
    /\ dp_loss' = Unbound /\ C_0' = Unbound
    /\ UNCHANGED <<args, exc>>

NextSign == Next \/ CallNegated

SpecSign == InitSign /\ [][NextSign]_vars

(***************************************************************************)
(* Direct calls of compute_beta and of compute_flow_coefficient.           *)
(***************************************************************************)
NoSolver ==
    /\ dp = Unbound /\ d_orifice = Unbound /\ d_pipe = Unbound
    /\ length_unit = "none" /\ p1 = Unbound /\ T = Unbound /\ phi = Unbound
    /\ kappa = Unbound /\ C_guess = Unbound /\ residuum = Unbound
    /\ InitLocals
    /\ qv_ref = Unbound
    /\ exc = "none"
    /\ warnings = {}
    /\ ret = <<>>

\* diameters in millimetres
OrificeDiameters ==
    { F(5, 0), F(124, -1), F(125, -1), F(126, -1), F(40, 0), F(75, 0), F(80, 0),
      F(100, 0) }

PipeDiameters ==
    { F(40, 0), F(499, -1), F(50, 0), F(100, 0), F(1000, 0), F(1001, 0) }

Units == { "mm", "m", "cm" }

MountingTypes == { "flange", "corner" }

\* the number that states x millimetres in the unit
InUnit(x, unit) ==
    [x EXCEPT !.e = x.e - (IF unit = "m" THEN 3 ELSE IF unit = "cm" THEN 1 ELSE 0)]

InitBeta ==
    /\ pc = "call"
    /\ \E d \in OrificeDiameters, D \in PipeDiameters, u \in Units,
          mt \in MountingTypes :
         args = [fn |-> "compute_beta", d |-> InUnit(d, u), D |-> InUnit(D, u),
                 unit |-> u, mounting_type |-> mt]
    /\ NoSolver

CallComputeBeta ==
    /\ pc = "call"
    /\ args.fn = "compute_beta"
    /\ ret' = compute_beta(args.d, args.D, args.unit, args.mounting_type)
    /\ pc' = "ret"
    /\ UNCHANGED <<args, exc, warnings, params, setup, loopv, dp_loss, qv_ref>>

SpecBeta == InitBeta /\ [][CallComputeBeta]_vars

BetaValues ==
    { F(5, -2), F(1, -1), F(15, -2), F(2, -1), F(5, -1), F(55, -2), F(6, -1),
      F(65, -2), F(77, -2), F(8, -1) }

PipeMetres == { F(1, -1), F(7112, -4), One }

ReValues == { F(5000, 0), F(10000, 0), F(5, 5), Zero }

InitCoef ==
    /\ pc = "call"
    /\ \E b \in BetaValues, D \in PipeMetres, R \in ReValues :
         args = [fn |-> "compute_flow_coefficient", beta |-> b, D |-> D, Re |-> R]
    /\ NoSolver

CallFlowCoefficient ==
    /\ pc = "call"
    /\ args.fn = "compute_flow_coefficient"
    /\ \E c \in compute_flow_coefficient(args.beta, args.D, args.Re) :
         ret' = [C |-> c, uncertainty |-> uncertainty(args.beta, args.D, args.Re)]
    /\ pc' = "ret"
    /\ UNCHANGED <<args, exc, warnings, params, setup, loopv, dp_loss, qv_ref>>

SpecCoef == InitCoef /\ [][CallFlowCoefficient]_vars

(***************************************************************************)
(* Properties.                                                             *)
(***************************************************************************)
MaxIterMessage == "maximum iterations" \in warnings

LoopLeft == pc \in {"done", "returned"}

\* C1: once the geometry has passed compute_beta (control is at the loop),
\* the loop terminates whatever the residuals are: the body has run at most
\* 1000 times (j <= 1000), at the head of the loop it has run fewer than
\* 1000 times, and every step taken at the head of the loop either leaves
\* the loop for line 300 (DONE) or is one more pass that adds 1 to j, so
\* that control is at line 300 after at most 1000 passes.
C1_LoopTerminates ==
    /\ [](j <= MAX_J + 1 /\ (pc = "loop" => j <= MAX_J))
    /\ [][pc = "loop" =>
            /\ pc' \in {"loop", "done"}
            /\ pc' = "loop" => j' = j + 1
            /\ j' <= j + 1]_vars

C1_Witness == pc = "done" /\ j = MAX_J + 1

\* C2: when the residual is still above 1e-4 after the 1000th pass, the call
\* does not raise: the message is emitted, the loop is left, and the tuple
\* returned is (qv, qv_min, qv_max, dp_loss) of the 1000th pass.
C2_CapReturnsLastValues ==
    (j = MAX_J + 1 /\ FGt(residuum, eps_res)) =>
        /\ LoopLeft
        /\ exc = "none"
        /\ MaxIterMessage
        /\ C # Unbound
        /\ vfr_value = _vfr(C_0, beta, d_orifice, eps, dp, rho_air)
        /\ pc = "returned" =>
             ret = <<vfr_value, vfr_value_min, vfr_value_max,
                     dp_loss_of(beta, C, dp)>>

C2_Witness ==
    /\ pc = "returned" /\ j = MAX_J + 1 /\ FGt(residuum, eps_res)
    /\ Len(ret) = 4

C4_SignConsistency ==
    (pc = "returned" /\ qv_ref # Unbound) => ret[1] = FNeg(qv_ref)

\* C5: compute_beta returns a value exactly when D > d and the mounting
\* type is 'flange', and the value is d / D of the diameters as passed,
\* for every unit and whether or not an advisory is emitted.
C5_BetaReturned ==
    pc = "ret" =>
        /\ ret.exc = "none" <=>
             (FGt(args.D, args.d) /\ args.mounting_type = "flange")
        /\ ret.exc = "none" => ret.beta = FDiv(args.d, args.D)
        /\ FLe(args.D, args.d) => ret.exc = "ValueError"
        /\ args.mounting_type # "flange" => ret.exc # "none"

C5_Witness ==
    /\ pc = "ret" /\ ret.exc = "none" /\ ret.warning # "none"
    /\ args.unit = "m" /\ ret.beta = FDiv(args.d, args.D)

\* the advisory range of the docstring, diameters in millimetres
OutsideAdvisoryRange(d_mm, D_mm) ==
    \/ FLt(FDiv(d_mm, D_mm), F(10, -2))
    \/ FGt(FDiv(d_mm, D_mm), F(75, -2))
    \/ FLt(d_mm, F(125, -1))
    \/ FLt(D_mm, F(50, 0))
    \/ FGt(D_mm, Thousand)

Millimetres(x, unit) == IF unit = "m" THEN FMul(x, Thousand) ELSE x

\* C6 (as claimed): for D > d > 0, 'flange' and unit mm or m, compute_beta
\* emits an advisory exactly when the geometry is outside the advisory
\* range; d_orifice = 12.5 mm is inside it.
C6_AdvisoryIffOutsideRange ==
    (pc = "ret" /\ ret.exc = "none" /\ args.unit \in {"mm", "m"}) =>
        (ret.warning # "none" <=>
           OutsideAdvisoryRange(Millimetres(args.d, args.unit),
                                Millimetres(args.D, args.unit)))

\* C7 (as claimed): qv, qv_min, qv_max and dp_loss returned are all derived
\* from the last computed C.
C7_AllFromLastC ==
    pc = "returned" =>
        /\ ret[1] = _vfr(C, beta, d_orifice, eps, dp, rho_air)
        /\ ret[2] = _vfr(FSub(C, C_err), beta, d_orifice,
                         FSub(eps, eps_uncertainty), dp, rho_air)
        /\ ret[3] = _vfr(FAdd(C, C_err), beta, d_orifice,
                         FAdd(eps, eps_uncertainty), dp, rho_air)
        /\ ret[4] = dp_loss_of(beta, C, dp)

\* C7 (amended): dp_loss is derived from the last computed C; qv, qv_min
\* and qv_max are the flow formula at the coefficient the last pass started
\* from (C_0: the C of the pass before, or the caller's C_guess), which
\* differs from C by the last residual.
C7_FlowsFromPreviousC ==
    pc = "returned" =>
        /\ ret[1] = _vfr(C_0, beta, d_orifice, eps, dp, rho_air)
        /\ ret[2] = _vfr(FSub(C_0, C_err), beta, d_orifice,
                         FSub(eps, eps_uncertainty), dp, rho_air)
        /\ ret[3] = _vfr(FAdd(C_0, C_err), beta, d_orifice,
                         FAdd(eps, eps_uncertainty), dp, rho_air)
        /\ ret[4] = dp_loss_of(beta, C, dp)
        /\ C_guess = C
        /\ residuum = FAbs(FSub(C, C_0))

C7_Witness ==
    /\ pc = "returned" /\ ~C.nan /\ C # C_0
    /\ ret[1] # _vfr(C, beta, d_orifice, eps, dp, rho_air)
    /\ ret[1] = _vfr(C_0, beta, d_orifice, eps, dp, rho_air)

\* the piecewise base value of the table
BaseUncertainty(b) ==
    IF FLe(F(10, -2), b) /\ FLt(b, F(20, -2))
    THEN FDiv(FSub(F(7, -1), b), Hundred)
    ELSE IF FLe(F(20, -2), b) /\ FLe(b, F(60, -2))
    THEN FDiv(F(5, -1), Hundred)
    ELSE IF FLt(F(60, -2), b) /\ FLe(b, F(77, -2))
    THEN FDiv(FSub(FMul(F(1667, -3), b), F(5, -1)), Hundred)
    ELSE Zero

SmallBoreTerm(b, D) ==
    IF FLt(D, F(7112, -4))
    THEN FDiv(FMul(FMul(F(9, -1), FSub(F(75, -2), b)),
                   FSub(F(28, -1), FDiv(D, F(254, -1)))), Hundred)
    ELSE Zero

\* C8 (as claimed): the uncertainty is the base value, plus 0.5/100 whenever
\* beta > 0.5 and Re < 10000, plus the small-bore term when D < 0.7112.
C8_UncertaintyAsClaimed ==
    pc = "ret" =>
        ret.uncertainty =
            FAdd(FAdd(BaseUncertainty(args.beta),
                      IF FGt(args.beta, F(5, -1)) /\ FLt(args.Re, F(10000, 0))
                      THEN FDiv(F(5, -1), Hundred) ELSE Zero),
                 SmallBoreTerm(args.beta, args.D))

\* C8 (amended): the 0.5/100 is added only where the base value is positive
\* (0.10 <= beta <= 0.77); for beta > 0.77 nothing is added for a low Re.
C8_UncertaintyGuarded ==
    pc = "ret" =>
        ret.uncertainty =
            FAdd(FAdd(BaseUncertainty(args.beta),
                      IF /\ FGt(BaseUncertainty(args.beta), Zero)
                         /\ FGt(args.beta, F(5, -1))
                         /\ FLt(args.Re, F(10000, 0))
                      THEN FDiv(F(5, -1), Hundred) ELSE Zero),
                 SmallBoreTerm(args.beta, args.D))

C8_Witness ==
    /\ pc = "ret" /\ args.fn = "compute_flow_coefficient"
    /\ FGt(args.beta, F(77, -2)) /\ FLt(args.Re, F(10000, 0)) /\ ~ret.C.nan
    /\ ret.uncertainty = SmallBoreTerm(args.beta, args.D)

\* C9 (as claimed): the maximum-iterations message is emitted only if the
\* loop is left with the residual still above 1e-4.
C9_MessageOnlyIfNotConverged ==
    (LoopLeft /\ MaxIterMessage) => FGt(residuum, eps_res)

\* C9 (amended): the message is emitted exactly when the body has run 1000
\* times, whatever the residual of the 1000th pass is; a run that leaves
\* the loop earlier left it because the residual was not above 1e-4, and
\* emits no message.
C9_MessageIffThousandPasses ==
    LoopLeft =>
        /\ MaxIterMessage <=> j = MAX_J + 1
        /\ j <= MAX_J => ~FGt(residuum, eps_res)

C9_Witness ==
    pc = "returned" /\ MaxIterMessage /\ FLe(residuum, eps_res) /\ j = MAX_J + 1

\* C10 (as claimed): whatever residuum and C_guess the caller passes, the
\* loop body has run at least once when control reaches line 300, so C and
\* the three flow rates are bound there.
C10_BodyRunsBeforeDone ==
    pc = "done" =>
        /\ j >= 1
        /\ C # Unbound /\ vfr_value # Unbound
        /\ vfr_value_min # Unbound /\ vfr_value_max # Unbound

=============================================================================
